---- MODULE Spec2Model ----
(***************************************************************************)
(* Rule engine of the gravity-drop connection game (game/gamemanager.py):  *)
(* the board, the alignment check, ClassicGame.play, Variante_1.play and   *)
(* the two play_ai_turn entry points, driven by arbitrary call sequences.  *)
(***************************************************************************)
EXTENDS Integers, Sequences, FiniteSets, TLC

\* Gestionnaire.__init__: self._width, self._height
width == 7
height == 6

Rows == 0..(height - 1)
Cols == 0..(width - 1)

\* number of unconstrained calls explored after the scripted line of play
MaxFree == 2

VARIABLES
    board,           \* self._board : [Rows -> [Cols -> {-1,0,1}]]
    current_player,  \* self._current_player
    victory,         \* self._victory
    draw,            \* self._draw
    event,           \* self._event
    variant,         \* class of the engine: "ClassicGame" or "Variante_1"
    mode_solo,       \* self.mode_solo
    ai_engine,       \* TRUE iff self.ai_engine is not None
    difficulty,      \* self.difficulty
    choix_diff,      \* the entry picked in the difficulty menu, if any
    in_game,         \* Controller._in_game
    prev,            \* engine state at entry of the last call
    last,            \* what the last call did: op, raised, requested
    script,          \* index of the line of play the caller follows first
    ncalls           \* number of calls made so far

vars == <<board, current_player, victory, draw, event, variant, mode_solo,
          ai_engine, difficulty, choix_diff, in_game, prev, last, script,
          ncalls>>

\* np.zeros((height, width))
EmptyBoard == [r \in Rows |-> [c \in Cols |-> 0]]

\* the mutable engine fields as one record
Eng == [board |-> board, current_player |-> current_player,
        victory |-> victory, draw |-> draw, event |-> event]

(***************************************************************************)
(* Gestionnaire.check_victory                                              *)
(***************************************************************************)
\* a direction list that lost the "/" diagonal
directions_without_antidiagonal == << <<0, 1>>, <<1, 0>>, <<1, 1>> >>

\* directions = [(0, 1), (1, 0), (1, 1), (1, -1)]
directions == << <<0, 1>>, <<1, 0>>, <<1, 1>>, <<1, -1>> >>

\* 0 <= nr < self.height and 0 <= nc < self.width
InBoard(r, c) == 0 <= r /\ r < height /\ 0 <= c /\ c < width

\* a scan that runs over the left and right edges into the facing column
CountSide_wrapping(b, r, c, dr, dc, player, n) ==
    Cardinality({i \in 1..(n - 1) :
        \A j \in 1..i : /\ 0 <= r + dr * j
                        /\ r + dr * j < height
                        /\ b[r + dr * j][(c + dc * j) % width] = player})

\* one `for i in range(1, n)` loop: the number of increments of count
\* before the first out-of-board or non-player cell breaks the loop
CountSide(b, r, c, dr, dc, player, n) ==
    Cardinality({i \in 1..(n - 1) :
        \A j \in 1..i : InBoard(r + dr * j, c + dc * j)
                        /\ b[r + dr * j][c + dc * j] = player})

check_victory(b, move, player, n) ==
    LET r == move[1]
        c == move[2]
    IN  \E k \in DOMAIN directions :
            LET dr == directions[k][1]
                dc == directions[k][2]
                count == 1 + CountSide(b, r, c, dr, dc, player, n)
                           + CountSide(b, r, c, -dr, -dc, player, n)
            IN  count >= n

(***************************************************************************)
(* Pieces of play shared by the two variants                               *)
(***************************************************************************)
\* col < 0 or col >= self.width or self.board[0, col] != 0
InvalidColumn(b, col) == col < 0 \/ col >= width \/ b[0][col] # 0

\* a search that stops at the first empty row from the top
LandingRow_from_top(b, col) ==
    IF \E r \in Rows : b[r][col] = 0
    THEN CHOOSE r \in Rows : b[r][col] = 0 /\ \A q \in Rows : q < r => b[q][col] # 0
    ELSE -1

\* for r in range(self.height - 1, -1, -1): first empty row from the bottom,
\* r_found = -1 when the loop finds none
LandingRow(b, col) ==
    IF \E r \in Rows : b[r][col] = 0
    THEN CHOOSE r \in Rows : b[r][col] = 0 /\ \A q \in Rows : q > r => b[q][col] # 0
    ELSE -1

\* self.board[r, col] = self._current_player
Place(b, r, col, player) ==
    IF r \in Rows THEN [b EXCEPT ![r][col] = player] ELSE b

\* np.all(self.board != 0)
BoardFull(b) == \A r \in Rows : \A c \in Cols : b[r][c] # 0

\* normal return of play: the new engine state, no exception
Accept(s) == [state |-> s, raised |-> FALSE]

\* the piece is on the board b and: self._victory = True
Win(s, b) == [s EXCEPT !.board = b, !.victory = TRUE]

\* a draw that also passes the turn
Tie_passing_turn(s, b) ==
    [s EXCEPT !.board = b, !.draw = TRUE,
              !.current_player = s.current_player * (-1)]

\* the piece is on the board b and: self._draw = True
Tie(s, b) == [s EXCEPT !.board = b, !.draw = TRUE]

\* a plain turn that does not hand the game to the other player
Pass_keeping_turn(s, b) == [s EXCEPT !.board = b]

\* the piece is on the board b and: self._current_player *= -1
Pass(s, b) == [s EXCEPT !.board = b, !.current_player = s.current_player * (-1)]

\* a rejection that closes the event sub-phase before raising
Reject_closing_event(s) == [state |-> [s EXCEPT !.event = FALSE], raised |-> TRUE]

\* raise InvalidMove(...): the engine state is the one at the raise
Reject(s) == [state |-> s, raised |-> TRUE]

(***************************************************************************)
(* ClassicGame.play                                                        *)
(***************************************************************************)
ClassicGame_play(s, move) ==
    LET col == move[2] IN
    IF InvalidColumn(s.board, col) THEN Reject(s)
    ELSE
      LET r_found == LandingRow(s.board, col)
          b == Place(s.board, r_found, col, s.current_player)
      IN  IF check_victory(b, <<r_found, col>>, s.current_player, 4)
          THEN Accept(Win(s, b))
          ELSE IF BoardFull(b)
          THEN Accept(Tie(s, b))
          ELSE Accept(Pass(s, b))

(***************************************************************************)
(* Variante_1.play                                                         *)
(***************************************************************************)
\* an event entry that also passes the turn
OpenEvent_passing_turn(s, b) ==
    [s EXCEPT !.board = b, !.event = TRUE,
              !.current_player = s.current_player * (-1)]

\* the piece is on the board b and: self._event = True, same player
OpenEvent(s, b) == [s EXCEPT !.board = b, !.event = TRUE]

\* a drop that grants the removal for any piece played, aligned or not
Variante_1_drop_event_on_any_piece(s, move) ==
    LET col == move[2] IN
    IF InvalidColumn(s.board, col) THEN Reject(s)
    ELSE
      LET r_found == LandingRow(s.board, col)
          b == Place(s.board, r_found, col, s.current_player)
      IN  IF check_victory(b, <<r_found, col>>, s.current_player, 4)
          THEN Accept(Win(s, b))
          ELSE Accept(OpenEvent(s, b))

\* CAS 1 : not self._event, the move is a drop
Variante_1_drop(s, move) ==
    LET col == move[2] IN
    IF InvalidColumn(s.board, col) THEN Reject(s)
    ELSE
      LET r_found == LandingRow(s.board, col)
          b == Place(s.board, r_found, col, s.current_player)
      IN  IF check_victory(b, <<r_found, col>>, s.current_player, 4)
          THEN Accept(Win(s, b))
          ELSE IF check_victory(b, <<r_found, col>>, s.current_player, 3)
          THEN Accept(OpenEvent(s, b))
          ELSE IF BoardFull(b)
          THEN Accept(Tie(s, b))
          ELSE Accept(Pass(s, b))

\* other_player = -1 if self.current_player == 1 else 1
OtherPlayer(player) == IF player = 1 THEN -1 ELSE 1

\* row < 0 or row >= height or col < 0 or col >= width
\* or self.board[row, col] != other_player
InvalidTarget(b, row, col, other_player) ==
    row < 0 \/ row >= height \/ col < 0 \/ col >= width
    \/ b[row][col] # other_player

\* a removal that empties the target and lets the pieces above it float
Collapse_without_shift(b, row, col) == [b EXCEPT ![row][col] = 0]

\* a fall that moves only the piece resting on the target
Collapse_one_step(b, row, col) ==
    [r \in Rows |-> [c \in Cols |->
        IF c # col THEN b[r][c]
        ELSE IF r = row THEN (IF row = 0 THEN 0 ELSE b[row - 1][c])
        ELSE IF r = row - 1 THEN 0
        ELSE b[r][c]]]

\* board[row, col] = 0; for r in range(row, 0, -1): board[r, col] = board[r-1, col];
\* board[0, col] = 0
Collapse(b, row, col) ==
    [r \in Rows |-> [c \in Cols |->
        IF c # col THEN b[r][c]
        ELSE IF r = 0 THEN 0
        ELSE IF r <= row THEN b[r - 1][c]
        ELSE b[r][c]]]

\* a scan that looks at the bottom piece of the column only
ColumnWin_bottom_only(b, col, player) ==
    b[5][col] = player /\ check_victory(b, <<5, col>>, player, 4)

\* the scan of the modified column: some piece of `player` in col has a 4-run
ColumnWin(b, col, player) ==
    \E r \in Rows : b[r][col] = player /\ check_victory(b, <<r, col>>, player, 4)

\* a resolution that credits every victory to the player in turn
Resolve_actor_only(s, b, victoire_moi, victoire_autre, other_player) ==
    LET t == IF victoire_moi /\ victoire_autre
             THEN [s EXCEPT !.board = b, !.draw = TRUE]
             ELSE IF victoire_moi \/ victoire_autre
             THEN [s EXCEPT !.board = b, !.victory = TRUE]
             ELSE [s EXCEPT !.board = b,
                            !.current_player = s.current_player * (-1)]
    IN  [t EXCEPT !.event = FALSE]

\* resolution of the victories found after the fall, then self._event = False
Resolve(s, b, victoire_moi, victoire_autre, other_player) ==
    LET t == IF victoire_moi /\ victoire_autre
             THEN [s EXCEPT !.board = b, !.draw = TRUE]
             ELSE IF victoire_moi
             THEN [s EXCEPT !.board = b, !.victory = TRUE]
             ELSE IF victoire_autre
             THEN [s EXCEPT !.board = b, !.victory = TRUE,
                            !.current_player = other_player]
             ELSE [s EXCEPT !.board = b,
                            !.current_player = s.current_player * (-1)]
    IN  [t EXCEPT !.event = FALSE]

\* CAS 2 : self._event, the move is the (row, col) of a piece to remove
Variante_1_remove(s, move) ==
    LET row == move[1]
        col == move[2]
        other_player == OtherPlayer(s.current_player)
    IN
    IF InvalidTarget(s.board, row, col, other_player) THEN Reject(s)
    ELSE
      LET b == Collapse(s.board, row, col)
          victoire_moi == ColumnWin(b, col, s.current_player)
          victoire_autre == ColumnWin(b, col, other_player)
      IN  Accept(Resolve(s, b, victoire_moi, victoire_autre, other_player))

Variante_1_play(s, move) ==
    IF ~s.event THEN Variante_1_drop(s, move) ELSE Variante_1_remove(s, move)

(***************************************************************************)
(* Variante_1.get_best_victim                                              *)
(***************************************************************************)
\* a scan that visits the columns from left to right
priority_cols_left_to_right == <<0, 1, 2, 3, 4, 5, 6>>

priority_cols == <<3, 2, 4, 1, 5, 0, 6>>

\* the None returned when no cell holds the opponent
None == <<>>

get_best_victim(b, opponent_player) ==
    LET hits == {k \in DOMAIN priority_cols :
                    \E row \in Rows : b[row][priority_cols[k]] = opponent_player}
    IN  IF hits = {} THEN None
        ELSE LET k == CHOOSE x \in hits : \A y \in hits : x <= y
                 col == priority_cols[k]
                 row == CHOOSE x \in Rows :
                            /\ b[x][col] = opponent_player
                            /\ \A y \in Rows : y > x => b[y][col] # opponent_player
             IN  <<row, col>>

(***************************************************************************)
(* play_ai_turn of the two variants; ret is the bridge's answer            *)
(***************************************************************************)
\* a return of play_ai_turn: state, whether InvalidMove escaped, and whether
\* ai_engine.get_best_move was called
AiReturn(s, raised, requested) ==
    [state |-> s, raised |-> raised, requested |-> requested]

\* a guard that forgets whose turn it is
AiIdle_any_player(s, solo, engine) == ~solo \/ ~engine

\* a guard that forgets that the bridge may be absent
AiIdle_without_bridge(s, solo, engine) == ~solo \/ s.current_player # 1

\* if not self.mode_solo or not self.ai_engine: return
\* if self._current_player != 1: return
AiIdle(s, solo, engine) == ~solo \/ ~engine \/ s.current_player # 1

\* an AI turn that trusts the bridge and folds its answer into the board
ClassicGame_play_ai_turn_trusting(s, solo, engine, ret) ==
    IF AiIdle(s, solo, engine) THEN AiReturn(s, FALSE, FALSE)
    ELSE LET res == ClassicGame_play(s, <<0, ret % width>>)
         IN  AiReturn(res.state, res.raised, TRUE)

ClassicGame_play_ai_turn(s, solo, engine, ret) ==
    IF AiIdle(s, solo, engine) THEN AiReturn(s, FALSE, FALSE)
    ELSE LET res == ClassicGame_play(s, <<0, ret>>)
         IN  AiReturn(res.state, res.raised, TRUE)

\* an AI turn that stops after its drop and leaves the event to the caller
Variante_1_play_ai_turn_leaving_event(s, solo, engine, ret) ==
    IF AiIdle(s, solo, engine) THEN AiReturn(s, FALSE, FALSE)
    ELSE LET r1 == Variante_1_play(s, <<0, ret>>)
         IN  AiReturn(r1.state, FALSE, TRUE)

Variante_1_play_ai_turn(s, solo, engine, ret) ==
    IF AiIdle(s, solo, engine) THEN AiReturn(s, FALSE, FALSE)
    ELSE
      LET r1 == Variante_1_play(s, <<0, ret>>) IN
      IF r1.raised THEN AiReturn(r1.state, FALSE, TRUE)   \* except InvalidMove: return
      ELSE IF r1.state.event
      THEN LET target == get_best_victim(r1.state.board, -1) IN
           IF target # None
           THEN LET r2 == Variante_1_play(r1.state, target)
                IN  AiReturn(r2.state, r2.raised, TRUE)
           ELSE AiReturn([r1.state EXCEPT !.event = FALSE,
                            !.current_player = r1.state.current_player * (-1)],
                         FALSE, TRUE)
      ELSE AiReturn(r1.state, FALSE, TRUE)

(***************************************************************************)
(* The request handed to the bridge: AIModel.get_best_move                 *)
(***************************************************************************)
\* the cells of the snapshot: 0 .. height * width - 1
Flat == 0..(height * width - 1)

\* a flattening that walks the board column by column
flatten_column_major(b) == [i \in Flat |-> b[i % height][i \div height]]

\* ndarray.flatten() of the 2-D board, C order: row after row
flatten(b) == [i \in Flat |-> b[i \div width][i % width]]

\* the low 32 bits of v as a signed value, computed on 16-bit halves
int32(v) ==
    LET lo == v % 65536
        hi == (v \div 65536) % 65536
    IN  (IF hi >= 32768 THEN hi - 65536 ELSE hi) * 65536 + lo

\* ndarray.astype(np.int32): each value wrapped to 32 bits, two's complement
astype_int32(a) == [i \in DOMAIN a |-> int32(a[i])]

\* a call that leaves the mode to its default, mode=0
get_best_move_default_mode(board_c, depth, mode) ==
    [board |-> astype_int32(board_c), depth |-> depth, mode |-> 0]

\* AIModel.get_best_move(board, depth, mode): what self.lib.get_best_move
\* receives; flatten() of the 1-D board_c is a copy of it
get_best_move(board_c, depth, mode) ==
    [board |-> astype_int32(board_c), depth |-> depth, mode |-> mode]

\* ClassicGame.play_ai_turn: board_c, then get_best_move(board_c, depth, mode=0)
ClassicGame_request(s, depth) ==
    get_best_move(astype_int32(flatten(s.board)), depth, 0)

\* Variante_1.play_ai_turn: board_c, then get_best_move(board_c, depth, mode=1)
Variante_1_request(s, depth) ==
    get_best_move(astype_int32(flatten(s.board)), depth, 1)

(***************************************************************************)
(* The callers' lines of play.  The engine is driven from construction by  *)
(* play calls only; a line of play fixes the first calls (each is a        *)
(* sequence of accepted moves), after which MaxFree calls are arbitrary.   *)
(***************************************************************************)
\* no scripted call: the calls are free from construction
ScriptNone ==
    <<  >>

\* -1 has three stacked in column 3, +1 three in column 2; -1 to move
ScriptVertical ==
    << <<0, 3>>, <<0, 2>>, <<0, 3>>, <<0, 2>>, <<0, 3>>, <<0, 2>> >>

\* -1 holds (5,2),(5,4),(5,5); a drop at 3 completes the row
ScriptHorizontal ==
    << <<0, 4>>, <<0, 4>>, <<0, 5>>, <<0, 4>>, <<0, 2>>, <<0, 4>> >>

\* +1 to move; a drop at 3 completes the diagonal (2,2),(3,3),(4,4),(5,5)
ScriptDiagonalDown ==
    << <<0, 2>>, <<0, 5>>, <<0, 3>>, <<0, 2>>, <<0, 4>>, <<0, 4>>, <<0, 2>>,
       <<0, 2>>, <<0, 3>> >>

\* +1 to move; a drop at 5 completes the diagonal (5,2),(4,3),(3,4),(2,5)
ScriptDiagonalUp ==
    << <<0, 4>>, <<0, 3>>, <<0, 4>>, <<0, 2>>, <<0, 5>>, <<0, 4>>, <<0, 5>>,
       <<0, 3>>, <<0, 5>> >>

\* two stacked for each player; -1 to move
ScriptThree ==
    << <<0, 3>>, <<0, 2>>, <<0, 3>>, <<0, 2>> >>

\* 41 drops without any 4-run; one cell is left
ScriptFill ==
    << <<0, 4>>, <<0, 3>>, <<0, 6>>, <<0, 0>>, <<0, 1>>, <<0, 4>>, <<0, 5>>,
       <<0, 5>>, <<0, 1>>, <<0, 1>>, <<0, 5>>, <<0, 0>>, <<0, 1>>, <<0, 6>>,
       <<0, 0>>, <<0, 1>>, <<0, 5>>, <<0, 5>>, <<0, 1>>, <<0, 0>>, <<0, 4>>,
       <<0, 6>>, <<0, 3>>, <<0, 2>>, <<0, 6>>, <<0, 6>>, <<0, 0>>, <<0, 4>>,
       <<0, 6>>, <<0, 5>>, <<0, 2>>, <<0, 0>>, <<0, 4>>, <<0, 2>>, <<0, 4>>,
       <<0, 2>>, <<0, 2>>, <<0, 2>>, <<0, 3>>, <<0, 3>>, <<0, 3>> >>

\* 41 drops, several of them completing a 4-run; one cell is left
ScriptWinThenFill ==
    << <<0, 6>>, <<0, 3>>, <<0, 3>>, <<0, 4>>, <<0, 1>>, <<0, 2>>, <<0, 1>>,
       <<0, 5>>, <<0, 1>>, <<0, 6>>, <<0, 3>>, <<0, 2>>, <<0, 0>>, <<0, 3>>,
       <<0, 6>>, <<0, 4>>, <<0, 5>>, <<0, 0>>, <<0, 1>>, <<0, 5>>, <<0, 5>>,
       <<0, 6>>, <<0, 2>>, <<0, 0>>, <<0, 5>>, <<0, 2>>, <<0, 5>>, <<0, 6>>,
       <<0, 4>>, <<0, 3>>, <<0, 4>>, <<0, 6>>, <<0, 1>>, <<0, 2>>, <<0, 2>>,
       <<0, 4>>, <<0, 4>>, <<0, 3>>, <<0, 0>>, <<0, 1>>, <<0, 0>> >>

\* two stacked for each player; -1 to move
ScriptEvent ==
    << <<0, 3>>, <<0, 0>>, <<0, 3>>, <<0, 0>> >>

\* -1 aligned three in column 3 and removed (5,0); -1 to move
ScriptAfterRemoval ==
    << <<0, 3>>, <<0, 0>>, <<0, 3>>, <<0, 0>>, <<0, 3>>, <<5, 0>>, <<0, 0>> >>

\* -1 is in the event phase; removing (5,5) lets a -1 piece fall into a row of four
ScriptActorWins ==
    << <<0, 2>>, <<0, 5>>, <<0, 4>>, <<0, 0>>, <<0, 5>>, <<0, 1>>, <<0, 3>> >>

\* event phase; removing (5,3) gives only the opponent a 4-run
ScriptOpponentWins ==
    << <<0, 4>>, <<0, 5>>, <<0, 5>>, <<0, 0>>, <<0, 3>>, <<0, 3>>, <<0, 3>>,
       <<0, 2>>, <<0, 2>>, <<0, 0>>, <<0, 4>>, <<0, 6>>, <<0, 2>>, <<0, 4>> >>

\* event phase; removing (5,1) gives both players a 4-run
ScriptBothWin ==
    << <<0, 3>>, <<0, 4>>, <<0, 2>>, <<0, 2>>, <<0, 0>>, <<0, 3>>, <<0, 4>>,
       <<0, 0>>, <<0, 5>>, <<0, 1>>, <<0, 1>>, <<0, 1>>, <<0, 2>> >>

\* 63 drops and removals without any 4-run; one cell is left
ScriptFillRemoval ==
    << <<0, 6>>, <<0, 0>>, <<0, 2>>, <<0, 3>>, <<0, 5>>, <<0, 5>>, <<0, 2>>,
       <<0, 5>>, <<0, 0>>, <<0, 2>>, <<0, 1>>, <<0, 0>>, <<0, 0>>, <<0, 0>>,
       <<0, 5>>, <<0, 2>>, <<0, 5>>, <<0, 5>>, <<0, 0>>, <<0, 6>>, <<0, 6>>,
       <<0, 2>>, <<4, 2>>, <<0, 4>>, <<3, 5>>, <<0, 1>>, <<2, 5>>, <<0, 3>>,
       <<0, 4>>, <<5, 1>>, <<0, 6>>, <<0, 5>>, <<0, 1>>, <<0, 5>>, <<2, 6>>,
       <<0, 2>>, <<0, 4>>, <<0, 4>>, <<0, 2>>, <<0, 4>>, <<0, 4>>, <<0, 3>>,
       <<0, 1>>, <<3, 6>>, <<0, 1>>, <<0, 6>>, <<0, 6>>, <<0, 6>>, <<2, 4>>,
       <<0, 3>>, <<1, 4>>, <<0, 3>>, <<2, 3>>, <<0, 6>>, <<0, 1>>, <<0, 4>>,
       <<0, 1>>, <<0, 3>>, <<0, 2>>, <<0, 4>>, <<0, 3>>, <<3, 1>>, <<0, 2>> >>

\* +1 has two stacked in column 3 and is to move
ScriptAiEvent ==
    << <<0, 0>>, <<0, 3>>, <<0, 0>>, <<0, 3>>, <<0, 6>> >>

\* +1 has won with the bottom row, kept the turn through removals next to
\* its four, and is to move on a board without any piece of -1; a drop at 4
\* completes a row of three
ScriptNoVictim ==
    << <<0, 6>>, <<0, 1>>, <<0, 6>>, <<0, 2>>, <<0, 5>>, <<0, 3>>, <<5, 5>>,
       <<0, 1>>, <<0, 4>>, <<0, 3>>, <<0, 4>>, <<0, 4>>, <<4, 4>>, <<0, 5>>,
       <<0, 5>>, <<4, 1>>, <<0, 6>>, <<4, 6>>, <<0, 3>>, <<5, 6>> >>

\* variantes = [ClassicGame, Variante_1], each with the lines of play used
Scripts ==
    << [variant |-> "ClassicGame", moves |-> ScriptNone],
       [variant |-> "ClassicGame", moves |-> ScriptVertical],
       [variant |-> "ClassicGame", moves |-> ScriptHorizontal],
       [variant |-> "ClassicGame", moves |-> ScriptDiagonalDown],
       [variant |-> "ClassicGame", moves |-> ScriptDiagonalUp],
       [variant |-> "ClassicGame", moves |-> ScriptThree],
       [variant |-> "ClassicGame", moves |-> ScriptFill],
       [variant |-> "ClassicGame", moves |-> ScriptWinThenFill],
       [variant |-> "Variante_1", moves |-> ScriptNone],
       [variant |-> "Variante_1", moves |-> ScriptEvent],
       [variant |-> "Variante_1", moves |-> ScriptAfterRemoval],
       [variant |-> "Variante_1", moves |-> ScriptActorWins],
       [variant |-> "Variante_1", moves |-> ScriptOpponentWins],
       [variant |-> "Variante_1", moves |-> ScriptBothWin],
       [variant |-> "Variante_1", moves |-> ScriptFillRemoval],
       [variant |-> "Variante_1", moves |-> ScriptAiEvent],
       [variant |-> "Variante_1", moves |-> ScriptNoVictim] >>

\* the (row, col) a caller may pass to play: every cell and one step outside
Moves == {<<r, c>> : r \in (-1)..height, c \in (-1)..width}

\* the columns the bridge may answer: every column and one step outside
BridgeAnswers == (-1)..width

\* the scripted prefix is made of play calls; afterwards any call, MaxFree times
Scripted == ncalls < Len(Scripts[script].moves)
Free == ~Scripted /\ ncalls < Len(Scripts[script].moves) + MaxFree

(***************************************************************************)
(* Construction: Gestionnaire.__init__, ClassicGame / Variante_1 __init__, *)
(* as called by Controller.menu_principal                                  *)
(***************************************************************************)
\* niveaux = [2, 4, 6], indexed by the menu entry 0, 1, 2
niveaux == [i \in 0..2 |-> <<2, 4, 6>>[i + 1]]

\* no difficulty menu was shown
NoChoice == -1

Init ==
    /\ script \in DOMAIN Scripts
    /\ variant = Scripts[script].variant
    /\ board = EmptyBoard
    /\ current_player = -1
    /\ victory = FALSE
    /\ draw = FALSE
    /\ event = FALSE
    /\ mode_solo \in BOOLEAN
    \* AIModel() is tried only in solo mode and may fail to load the library
    /\ ai_engine \in (IF mode_solo THEN BOOLEAN ELSE {FALSE})
    \* Controller.menu_principal: the difficulty menu is shown in solo mode
    \* only, difficulty = niveaux[choix_diff]; otherwise difficulty = 4
    /\ choix_diff \in (IF mode_solo THEN DOMAIN niveaux ELSE {NoChoice})
    /\ difficulty = (IF mode_solo THEN niveaux[choix_diff] ELSE 4)
    /\ in_game = TRUE
    /\ prev = [board |-> EmptyBoard, current_player |-> -1, victory |-> FALSE,
               draw |-> FALSE, event |-> FALSE]
    /\ last = [op |-> "init", raised |-> FALSE, requested |-> FALSE,
               ret |-> None, request |-> None]
    /\ ncalls = 0

\* dispatch on the class of the engine
play(s, move) ==
    IF variant = "ClassicGame" THEN ClassicGame_play(s, move)
    ELSE Variante_1_play(s, move)

play_ai_turn(s, ret) ==
    IF variant = "ClassicGame"
    THEN ClassicGame_play_ai_turn(s, mode_solo, ai_engine, ret)
    ELSE Variante_1_play_ai_turn(s, mode_solo, ai_engine, ret)

\* the engine fields after a call
Becomes(s) ==
    /\ board' = s.board
    /\ current_player' = s.current_player
    /\ victory' = s.victory
    /\ draw' = s.draw
    /\ event' = s.event

\* the request of a play_ai_turn that reaches the bridge
request(s) ==
    IF variant = "ClassicGame" THEN ClassicGame_request(s, difficulty)
    ELSE Variante_1_request(s, difficulty)

\* gestionnaire.play(move)
Play(move) ==
    /\ \/ Scripted /\ move = Scripts[script].moves[ncalls + 1]
       \/ Free
    /\ LET res == play(Eng, move) IN
         /\ Becomes(res.state)
         /\ last' = [op |-> "play", raised |-> res.raised, requested |-> FALSE,
                     ret |-> None, request |-> None]
    /\ prev' = Eng
    /\ ncalls' = ncalls + 1
    /\ UNCHANGED <<variant, mode_solo, ai_engine, difficulty, choix_diff,
                   in_game, script>>

\* gestionnaire.play_ai_turn(), the bridge answering ret if it is asked
PlayAiTurn(ret) ==
    /\ Free
    /\ LET res == play_ai_turn(Eng, ret) IN
         /\ Becomes(res.state)
         /\ last' = [op |-> "play_ai_turn", raised |-> res.raised,
                     requested |-> res.requested,
                     ret |-> IF res.requested THEN ret ELSE None,
                     request |-> IF res.requested THEN request(Eng) ELSE None]
    /\ prev' = Eng
    /\ ncalls' = ncalls + 1
    /\ UNCHANGED <<variant, mode_solo, ai_engine, difficulty, choix_diff,
                   in_game, script>>

Next ==
    \/ \E move \in Moves : Play(move)
    \/ \E ret \in BridgeAnswers : PlayAiTurn(ret)

Spec == Init /\ [][Next]_vars

(***************************************************************************)
(* A session driven by the Controller: one game_loop per human input       *)
(***************************************************************************)
\* free iterations of game_loop after the scripted ones
MaxLoops == 1

\* Interface.send_game: a click inside the grid, or None for "Retour Menu"
Clicks == Rows \X Cols

\* no iteration scripted
SessionNone == <<>>

\* one iteration: the human drops in column 3 and the bridge, when asked,
\* answers with a column outside the board
SessionStalled == << [move |-> <<0, 3>>, ret |-> -1] >>

Sessions ==
    << [variant |-> "ClassicGame", loops |-> SessionNone],
       [variant |-> "Variante_1", loops |-> SessionNone],
       [variant |-> "ClassicGame", loops |-> SessionStalled],
       [variant |-> "Variante_1", loops |-> SessionStalled] >>

SessionScripted == ncalls < Len(Sessions[script].loops)
SessionFree == ~SessionScripted /\ ncalls < Len(Sessions[script].loops) + MaxLoops

\* Controller.menu_principal: the engine of the chosen variant is created
InitController ==
    /\ script \in DOMAIN Sessions
    /\ variant = Sessions[script].variant
    /\ board = EmptyBoard
    /\ current_player = -1
    /\ victory = FALSE
    /\ draw = FALSE
    /\ event = FALSE
    /\ mode_solo \in BOOLEAN
    /\ ai_engine \in (IF mode_solo THEN BOOLEAN ELSE {FALSE})
    /\ choix_diff \in (IF mode_solo THEN DOMAIN niveaux ELSE {NoChoice})
    /\ difficulty = (IF mode_solo THEN niveaux[choix_diff] ELSE 4)
    /\ in_game = TRUE
    /\ prev = [board |-> EmptyBoard, current_player |-> -1, victory |-> FALSE,
               draw |-> FALSE, event |-> FALSE]
    /\ last = [op |-> "init", raised |-> FALSE, requested |-> FALSE,
               ret |-> None, request |-> None]
    /\ ncalls = 0

\* Controller.check_game_end: TRUE iff the game is over
check_game_end(s) == s.victory \/ s.draw

LoopReturn(s, raised, requested, request_, playing) ==
    [state |-> s, raised |-> raised, requested |-> requested,
     request |-> request_, in_game |-> playing]

\* Controller.game_loop with a click: the try block.  raised tells whether
\* the human's play raised InvalidMove; an InvalidMove of the AI turn is
\* swallowed by the same except clause, before check_game_end
game_loop(s, move, ret) ==
    LET h == play(s, move) IN
    IF h.raised THEN LoopReturn(h.state, TRUE, FALSE, None, TRUE)
    ELSE IF check_game_end(h.state)
    THEN LoopReturn(h.state, FALSE, FALSE, None, FALSE)
    ELSE IF mode_solo
    THEN LET a == play_ai_turn(h.state, ret) IN
         LoopReturn(a.state, FALSE, a.requested,
                    IF a.requested THEN request(h.state) ELSE None,
                    a.raised \/ ~check_game_end(a.state))
    ELSE LoopReturn(h.state, FALSE, FALSE, None, TRUE)

\* one iteration of Controller.game_loop
GameLoop(move, ret) ==
    /\ in_game
    /\ \/ /\ SessionScripted
          /\ move = Sessions[script].loops[ncalls + 1].move
          /\ ret = Sessions[script].loops[ncalls + 1].ret
       \/ SessionFree
    /\ IF move = None
       THEN \* Retour Menu: the game is left as it is
            /\ in_game' = FALSE
            /\ last' = [op |-> "menu", raised |-> FALSE, requested |-> FALSE,
                        ret |-> None, request |-> None]
            /\ UNCHANGED <<board, current_player, victory, draw, event>>
       ELSE LET res == game_loop(Eng, move, ret) IN
            /\ Becomes(res.state)
            /\ in_game' = res.in_game
            /\ last' = [op |-> "game_loop", raised |-> res.raised,
                        requested |-> res.requested,
                        ret |-> IF res.requested THEN ret ELSE None,
                        request |-> res.request]
    /\ prev' = Eng
    /\ ncalls' = ncalls + 1
    /\ UNCHANGED <<variant, mode_solo, ai_engine, difficulty, choix_diff,
                   script>>

NextController ==
    \E move \in Clicks \cup {None} : \E ret \in BridgeAnswers :
        GameLoop(move, ret)

SpecController == InitController /\ [][NextController]_vars

(***************************************************************************)
(* Vocabulary of the properties                                            *)
(***************************************************************************)
\* the four line directions
Lines == {<<0, 1>>, <<1, 0>>, <<1, 1>>, <<1, -1>>}

Cells == Rows \X Cols

\* how far the cells of p extend from (r, c) by steps of (dr, dc)
Reach(b, r, c, dr, dc, p) ==
    Cardinality({i \in 1..width :
        \A j \in 1..i : /\ (r + dr * j) \in Rows
                        /\ (c + dc * j) \in Cols
                        /\ b[r + dr * j][c + dc * j] = p})

\* length of the maximal run of p through (r, c) along (dr, dc)
RunThrough(b, r, c, dr, dc, p) ==
    1 + Reach(b, r, c, dr, dc, p) + Reach(b, r, c, -dr, -dc, p)

\* (r, c) lies in a run of at least n pieces of p in some direction
HasRun(b, r, c, p, n) ==
    \E d \in Lines : RunThrough(b, r, c, d[1], d[2], p) >= n

\* number of cells of b holding v
Count(b, v) == Cardinality({x \in Cells : b[x[1]][x[2]] = v})

\* the cells the last call changed
Changed == {x \in Cells : board[x[1]][x[2]] # prev.board[x[1]][x[2]]}

\* the outcome of an engine state is terminal
Terminal(s) == s.victory \/ s.draw

\* the last call returned normally and put one piece of the player in turn
\* on an empty cell, changing no other cell
AcceptedDrop ==
    /\ last.op # "init"
    /\ ~last.raised
    /\ Cardinality(Changed) = 1
    /\ \A x \in Changed : /\ prev.board[x[1]][x[2]] = 0
                          /\ board[x[1]][x[2]] = prev.current_player

\* the cell where the dropped piece landed
Landed == CHOOSE x \in Cells : x \in Changed

(***************************************************************************)
(* Properties                                                              *)
(***************************************************************************)
\* C1: whenever a call raises InvalidMove (bad column, full column, removal
\* target out of range or not the opponent's), the board, current player,
\* victory, draw and event are exactly as before the call; a rejected
\* removal leaves the event open.
C1_RejectedMoveChangesNothing ==
    last.raised => Eng = prev

\* a removal was just rejected in the event phase
C1_Witness_RejectedRemoval ==
    /\ variant = "Variante_1"
    /\ last.op = "play"
    /\ last.raised
    /\ prev.event
    /\ event

\* C2: once victory or draw is set, no later call to play or play_ai_turn
\* changes any cell of the board.
C2_TerminalBoardFrozen ==
    (last.op # "init" /\ Terminal(prev)) => board = prev.board

\* C3: victory and draw are never both true.
C3_OneOutcome ==
    ~(victory /\ draw)

\* C4: classic variant, in-progress board, accepted drop by the player p in
\* turn: if the landed piece lies in a run of at least 4 of p in one of the
\* four directions, victory becomes true and the current player stays p; if
\* its longest run is 3 or less, victory is not set; if moreover the board
\* is not full, the current player flips.
C4_ClassicDropOutcome ==
    (variant = "ClassicGame" /\ ~Terminal(prev) /\ AcceptedDrop) =>
        LET p == prev.current_player
            four == HasRun(board, Landed[1], Landed[2], p, 4)
        IN  /\ four => (victory /\ current_player = p)
            /\ ~four => ~victory
            /\ (~four /\ Count(board, 0) > 0) => current_player = -p

\* a classic drop has just won by the "/" diagonal alone
C4_Witness_AntidiagonalWin ==
    /\ variant = "ClassicGame"
    /\ ~Terminal(prev)
    /\ AcceptedDrop
    /\ victory
    /\ current_player = prev.current_player
    /\ RunThrough(board, Landed[1], Landed[2], 1, -1, prev.current_player) >= 4
    /\ RunThrough(board, Landed[1], Landed[2], 0, 1, prev.current_player) < 4
    /\ RunThrough(board, Landed[1], Landed[2], 1, 0, prev.current_player) < 4
    /\ RunThrough(board, Landed[1], Landed[2], 1, 1, prev.current_player) < 4

\* the run length a variant reacts to on a drop: 4 in the classic game,
\* 3 (the event) in the removal variant
AlignmentLength == IF variant = "ClassicGame" THEN 4 ELSE 3

\* C5: in either variant, an accepted drop that fills the last empty cell
\* and forms no alignment for the mover sets draw and leaves victory false.
C5_FullBoardDraw ==
    (/\ AcceptedDrop
     /\ Count(board, 0) = 0
     /\ ~HasRun(board, Landed[1], Landed[2], prev.current_player, AlignmentLength))
        => (draw /\ ~victory)

\* the phases of the removal variant's state machine
NormalPhase(s) == ~s.event /\ ~Terminal(s)
EventPhase(s) == s.event /\ ~Terminal(s)

\* C6: removal variant, Normal phase: an accepted drop by p whose landed
\* piece completes a run of 3 but not 4 sets event, keeps p in turn and
\* leaves victory and draw false; while the event is open, every move that
\* play accepts removes one piece of the opponent and drops nothing, and
\* every other move is rejected with the event still open.
C6_EventEntryAndRemovalOnly ==
    LET p == prev.current_player IN
    /\ (/\ variant = "Variante_1"
        /\ last.op = "play"
        /\ NormalPhase(prev)
        /\ AcceptedDrop
        /\ HasRun(board, Landed[1], Landed[2], p, 3)
        /\ ~HasRun(board, Landed[1], Landed[2], p, 4))
           => (event /\ current_player = p /\ ~victory /\ ~draw)
    /\ (variant = "Variante_1" /\ last.op = "play" /\ prev.event)
           => IF last.raised
              THEN event /\ board = prev.board
              ELSE /\ Count(board, -p) = Count(prev.board, -p) - 1
                   /\ Count(board, p) = Count(prev.board, p)
                   /\ \E x \in Changed : prev.board[x[1]][x[2]] = -p
                   /\ ~event

\* a drop has just opened the event sub-phase
C6_Witness_EventOpened ==
    /\ variant = "Variante_1"
    /\ last.op = "play"
    /\ NormalPhase(prev)
    /\ AcceptedDrop
    /\ event
    /\ current_player = prev.current_player
    /\ HasRun(board, Landed[1], Landed[2], prev.current_player, 3)

\* the last call was a play that removed a piece in the Event phase
AcceptedRemoval ==
    /\ variant = "Variante_1"
    /\ last.op = "play"
    /\ ~last.raised
    /\ EventPhase(prev)

\* the column the removal emptied a cell of
AffectedColumn == CHOOSE c \in Cols : \E r \in Rows : <<r, c>> \in Changed

\* some piece of p in column c lies in a run of at least 4
ColumnHasFour(b, c, p) ==
    \E r \in Rows : b[r][c] = p /\ HasRun(b, r, c, p, 4)

\* C7: removal variant, Event phase, after an accepted removal by p
\* (opponent q) and the collapse: both players have a 4-run through the
\* affected column -> draw; only p -> victory, p in turn; only q -> victory,
\* q in turn; neither -> q in turn and no terminal flag; event is false in
\* all four cases.
C7_RemovalResolution ==
    AcceptedRemoval =>
        LET p == prev.current_player
            q == -p
            actor_wins == ColumnHasFour(board, AffectedColumn, p)
            opponent_wins == ColumnHasFour(board, AffectedColumn, q)
        IN  /\ (actor_wins /\ opponent_wins) => draw
            /\ (actor_wins /\ ~opponent_wins) => (victory /\ current_player = p)
            /\ (~actor_wins /\ opponent_wins) => (victory /\ current_player = q)
            /\ (~actor_wins /\ ~opponent_wins)
                   => (current_player = q /\ ~victory /\ ~draw)
            /\ ~event

\* a removal has just given a 4-run to the opponent only
C7_Witness_OpponentWins ==
    /\ AcceptedRemoval
    /\ ColumnHasFour(board, AffectedColumn, -prev.current_player)
    /\ ~ColumnHasFour(board, AffectedColumn, prev.current_player)
    /\ victory
    /\ current_player = -prev.current_player

\* the last call set a flag that was false when it was entered
SetsVictory == victory /\ ~prev.victory
SetsDraw == draw /\ ~prev.draw
EntersEvent == event /\ ~prev.event

\* C8 as stated: the current player changes only on a call that does not
\* end in victory, in draw or in the entry of an event sub-phase.
C8_PlayerChangesOnlyOnPlainTurn ==
    (last.op # "init" /\ (SetsVictory \/ SetsDraw \/ EntersEvent))
        => current_player = prev.current_player

\* the player now in turn lost a piece in the last call and owns a 4-run:
\* a removal won the game for the opponent of the player who removed
WonByOpponentOfRemover ==
    /\ variant = "Variante_1"
    /\ SetsVictory
    /\ current_player = -prev.current_player
    /\ Count(board, current_player) = Count(prev.board, current_player) - 1
    /\ \E x \in Cells : /\ board[x[1]][x[2]] = current_player
                        /\ HasRun(board, x[1], x[2], current_player, 4)

\* C8 amended: the current player changes only on a call that does not end
\* in victory, draw or event entry, except for a removal whose collapse
\* gives a 4-run to the opponent only: it sets victory and the opponent
\* becomes the current player.
C8_PlayerChangesOnlyOnPlainTurnOrLostRemoval ==
    (last.op # "init" /\ (SetsVictory \/ SetsDraw \/ EntersEvent))
        => (current_player = prev.current_player \/ WonByOpponentOfRemover)

\* a drop has just filled the board: draw, and the mover is still in turn
C8_Witness_DrawKeepsPlayer ==
    /\ last.op = "play"
    /\ AcceptedDrop
    /\ SetsDraw
    /\ ~victory
    /\ current_player = prev.current_player

\* C9: play_ai_turn asks the bridge, and changes the engine, only when solo
\* mode is on and the current player is +1; with solo mode off, or with -1
\* in turn (also in an open event sub-phase), it changes nothing.
C9_AiOnlyOnItsTurn ==
    last.op = "play_ai_turn" =>
        /\ (last.requested \/ Eng # prev)
               => (mode_solo /\ prev.current_player = 1)
        /\ (~mode_solo \/ prev.current_player = -1)
               => (Eng = prev /\ ~last.requested /\ ~last.raised)

\* play_ai_turn was called in solo mode, bridge loaded, while the human was
\* in an open event sub-phase
C9_Witness_HumanInEvent ==
    /\ last.op = "play_ai_turn"
    /\ mode_solo
    /\ ai_engine
    /\ prev.current_player = -1
    /\ prev.event
    /\ Eng = prev

\* C10: with the bridge absent a solo-mode engine is still constructed, and
\* every play_ai_turn leaves board, current player, victory, draw and event
\* unchanged.
C10_NoBridgeNoOp ==
    /\ (last.op = "init" /\ mode_solo /\ ~ai_engine)
           => (board = EmptyBoard /\ current_player = -1 /\ ~Terminal(Eng) /\ ~event)
    /\ (last.op = "play_ai_turn" /\ ~ai_engine)
           => (Eng = prev /\ ~last.requested /\ ~last.raised)

\* play_ai_turn was called on the AI's turn of a solo game without bridge
C10_Witness_StalledAiTurn ==
    /\ last.op = "play_ai_turn"
    /\ mode_solo
    /\ ~ai_engine
    /\ ~Terminal(prev)
    /\ prev.current_player = 1
    /\ current_player = 1

\* the last call was an AI turn that asked the bridge for a column
AiAsked == last.op = "play_ai_turn" /\ last.requested

\* the bridge's answer names a column of the board that has room
InContract(b, col) == col \in Cols /\ b[0][col] = 0

\* the state left by the AI's own resolution of the event that s has open
AiResolved(s) ==
    \/ \E x \in Cells : /\ s.board[x[1]][x[2]] = -1
                        /\ Eng = play(s, x).state
    \/ /\ Count(s.board, -1) = 0
       /\ Eng = [s EXCEPT !.event = FALSE, !.current_player = -1]

\* C11 as stated: every bridge answer goes through the validation of a human
\* drop: an out-of-contract column (outside [0,7) or full) leaves the board,
\* current player, victory, draw and event unchanged, and an in-contract
\* column produces exactly the state play((0, column)) produces.
C11_AnswerIsExactlyOnePlay ==
    AiAsked =>
        IF InContract(prev.board, last.ret)
        THEN Eng = play(prev, <<0, last.ret>>).state
        ELSE Eng = prev

\* C11, amended: every bridge answer is handed to play((0, column)).  With no
\* event open, an out-of-contract column is rejected and the state is
\* unchanged; with an event open, a column outside [0,7) or whose top cell
\* does not hold -1 is rejected and the state is unchanged.  An accepted
\* answer produces the state of play((0, column)), followed, in the removal
\* variant when that state has an event open, by the AI's own resolution of
\* the event within the same call.
C11_AnswerGoesThroughPlay ==
    AiAsked =>
        LET col == last.ret
            r1 == play(prev, <<0, col>>)
            rejected == IF prev.event
                        THEN col \notin Cols \/ prev.board[0][col] # -1
                        ELSE ~InContract(prev.board, col)
        IN  /\ prev.current_player = 1
            /\ rejected => Eng = prev
            /\ ~rejected =>
                 IF variant = "Variante_1" /\ r1.state.event
                 THEN AiResolved(r1.state)
                 ELSE Eng = r1.state

\* the bridge named a full column and nothing changed
C11_Witness_FullColumnRejected ==
    /\ AiAsked
    /\ last.ret \in Cols
    /\ prev.board[0][last.ret] # 0
    /\ ~Terminal(prev)
    /\ Eng = prev

\* the last iteration of game_loop handed a human input to play, which
\* accepted it on a game in progress
HumanInputApplied ==
    /\ last.op = "game_loop"
    /\ ~last.raised
    /\ ~Terminal(prev)

\* C12: in a solo session driven by Controller.game_loop, whatever the
\* bridge does, a human input is applied to a game in progress only while
\* the current player is -1.
C12_HumanPlaysOnlyAsMinusOne ==
    (mode_solo /\ HumanInputApplied) => prev.current_player = -1

\* the 6x7 grid read back from a snapshot by the index rule row * 7 + col
Rebuild(snap) == [r \in Rows |-> [c \in Cols |-> snap[r * 7 + c]]]

\* snap is the row-major image of b: 42 elements, each in {-1, 0, 1}
SnapshotOf(snap, b) ==
    /\ DOMAIN snap = 0..41
    /\ \A x \in Cells : snap[x[1] * 7 + x[2]] = b[x[1]][x[2]]
    /\ \A i \in DOMAIN snap : snap[i] \in {-1, 0, 1}
    /\ Rebuild(snap) = b

\* C13: for every board, the snapshot handed to the bridge has 42 elements,
\* the element at index row*7+col equals board[row][col] (values in
\* {-1,0,1}), rebuilding a grid from it by that rule gives the board back,
\* and building the snapshot does not change the board: a call whose bridge
\* answer is then rejected leaves the board as it was.
C13_SnapshotIsRowMajorBoard ==
    /\ SnapshotOf(ClassicGame_request(Eng, difficulty).board, board)
    /\ SnapshotOf(Variante_1_request(Eng, difficulty).board, board)
    /\ AiAsked =>
         /\ SnapshotOf(last.request.board, prev.board)
         /\ (last.ret \notin Cols => board = prev.board)

\* the bridge was handed a board with pieces on it, and its answer was
\* rejected
C13_Witness_SnapshotOfPlayedBoard ==
    /\ AiAsked
    /\ last.ret \notin Cols
    /\ Count(prev.board, 1) > 0
    /\ Count(prev.board, -1) > Count(prev.board, 1)
    /\ last.request.board[5 * 7 + 3] = -1

TraceBoard(n) ==
    [r \in Rows |-> [c \in Cols |->
        IF c = 3 /\ r >= 6 - ((n + 1) \div 2) THEN -1
        ELSE IF c = 2 /\ r >= 6 - (n \div 2) THEN 1
        ELSE 0]]

\* the session plays the classic variant along the trace 3,2,3,2,3,2
OnTrace == variant = "ClassicGame" /\ Scripts[script].moves = ScriptVertical

\* C15: classic variant, from the initial state the drops at columns
\* 3,2,3,2,3,2,3 are accepted and played alternately by -1,+1,...,-1; the
\* game stays in progress after each of the first six, and the seventh sets
\* victory with current player -1 (vertical four in column 3).
C15_VerticalFourTrace ==
    OnTrace =>
        /\ ncalls <= 6 =>
             /\ board = TraceBoard(ncalls)
             /\ ~victory /\ ~draw /\ ~event
             /\ current_player = (IF ncalls % 2 = 0 THEN -1 ELSE 1)
             /\ ncalls >= 1 =>
                  /\ AcceptedDrop
                  /\ prev.current_player = (IF ncalls % 2 = 1 THEN -1 ELSE 1)
        /\ (ncalls = 7 /\ last.op = "play" /\ ~last.raised
              /\ Changed = {<<2, 3>>}) =>
             /\ board = TraceBoard(7)
             /\ victory /\ ~draw /\ ~event
             /\ current_player = -1
             /\ prev.current_player = -1

\* the seventh drop of the trace has been played
C15_Witness_SeventhDrop ==
    /\ OnTrace
    /\ ncalls = 7
    /\ last.op = "play"
    /\ board = TraceBoard(7)
    /\ victory

\* the cells of the board that hold a piece
Occupied == {x \in Cells : board[x[1]][x[2]] # 0}

\* C16: for every board, anchor cell (r,c) holding player p and run length
\* n in {3,4}: check_victory((r,c), p, n) is true exactly when, in one of
\* the four line directions, the maximal sequence of consecutive in-board
\* cells holding p that contains (r,c) has length at least n; the scan stops
\* at the first out-of-board or non-p cell and never wraps around an edge.
C16_CheckVictoryIsMaximalRun ==
    \A x \in Occupied : \A n \in {3, 4} :
        LET p == board[x[1]][x[2]] IN
        check_victory(board, x, p, n) <=> HasRun(board, x[1], x[2], p, n)

\* a piece on the left edge whose row would make three with the two cells
\* at the right edge, and that lies in no run of three, on a board where
\* another piece lies in a run of four
C16_Witness_NoRunAcrossEdge ==
    /\ \E x \in Occupied : check_victory(board, x, board[x[1]][x[2]], 4)
    /\ \E r \in Rows :
         /\ board[r][0] # 0
         /\ board[r][6] = board[r][0]
         /\ board[r][5] = board[r][0]
         /\ ~HasRun(board, r, 0, board[r][0], 3)
         /\ ~check_victory(board, <<r, 0>>, board[r][0], 3)

\* the empty cell of column c with the largest row index
LowestEmpty(b, c) ==
    CHOOSE r \in Rows : b[r][c] = 0 /\ \A q \in Rows : b[q][c] = 0 => q <= r

\* b with the value v written at (r, c) and no other cell changed
WithPiece(b, r, c, v) ==
    [q \in Rows |-> [d \in Cols |-> IF q = r /\ d = c THEN v ELSE b[q][d]]]

\* C17: for every variant in the Normal phase, every column c in [0,7)
\* whose top cell is empty and every board: the drop is accepted, writes the
\* current player's value into the lowest empty row of c (the empty cell of
\* c with the largest row index) and changes no other cell of the board.
C17_DropLandsOnLowestEmptyRow ==
    /\ NormalPhase(Eng) =>
         \A move \in Moves :
             (move[2] \in Cols /\ board[0][move[2]] = 0) =>
                 LET res == play(Eng, move) IN
                 /\ ~res.raised
                 /\ res.state.board =
                      WithPiece(board, LowestEmpty(board, move[2]), move[2],
                                current_player)
    /\ (NormalPhase(prev) /\ last.op = "play" /\ ~last.raised) =>
         \E c \in Cols :
             /\ prev.board[0][c] = 0
             /\ board = WithPiece(prev.board, LowestEmpty(prev.board, c), c,
                                  prev.current_player)

\* a drop was accepted on top of a column that already held pieces
C17_Witness_DropOnStack ==
    /\ NormalPhase(prev)
    /\ last.op = "play"
    /\ ~last.raised
    /\ \E c \in Cols : /\ prev.board[5][c] # 0
                       /\ prev.board[0][c] = 0
                       /\ Changed = {<<LowestEmpty(prev.board, c), c>>}
                       /\ variant = "Variante_1"

\* after is before with the piece at (row, col) taken out and the pieces
\* above it moved down by one row
RemovedFrom(before, after, row, col) ==
    /\ \A r \in 1..row : after[r][col] = before[r - 1][col]
    /\ after[0][col] = 0
    /\ \A r \in Rows : r > row => after[r][col] = before[r][col]
    /\ \A r \in Rows : \A c \in Cols : c # col => after[r][c] = before[r][c]

\* the piece counts after a removal by actor: one opponent piece less
CountsAfterRemoval(before, after, actor) ==
    /\ Count(after, -actor) = Count(before, -actor) - 1
    /\ Count(after, actor) = Count(before, actor)

\* C18: removal variant: an accepted removal at (row, col) yields a board
\* where, in column col, each cell at rows 1..row holds the value previously
\* at the row directly above it, row 0 is empty, rows below row are
\* unchanged and every other column is unchanged; the number of the
\* opponent's pieces decreases by exactly one and the actor's piece count is
\* unchanged.
C18_RemovalCollapsesColumn ==
    /\ (variant = "Variante_1" /\ event) =>
         \A x \in Cells :
             board[x[1]][x[2]] = -current_player =>
                 LET res == play(Eng, x) IN
                 /\ ~res.raised
                 /\ RemovedFrom(board, res.state.board, x[1], x[2])
                 /\ CountsAfterRemoval(board, res.state.board, current_player)
    /\ (variant = "Variante_1" /\ prev.event /\ last.op = "play"
          /\ ~last.raised) =>
         \E x \in Cells :
             /\ prev.board[x[1]][x[2]] = -prev.current_player
             /\ RemovedFrom(prev.board, board, x[1], x[2])
             /\ CountsAfterRemoval(prev.board, board, prev.current_player)

\* a piece with another piece on top of it was removed
C18_Witness_RemovalUnderAPiece ==
    /\ AcceptedRemoval
    /\ \E x \in Cells :
           /\ x[1] >= 1
           /\ prev.board[x[1]][x[2]] = -prev.current_player
           /\ prev.board[x[1] - 1][x[2]] # 0
           /\ RemovedFrom(prev.board, board, x[1], x[2])
           /\ board[x[1]][x[2]] = prev.board[x[1] - 1][x[2]]

\* the place of column c in the visiting order 3, 2, 4, 1, 5, 0, 6
ColumnRank(c) == IF c = 3 THEN 0 ELSE IF c < 3 THEN 2 * (3 - c) - 1 ELSE 2 * (c - 3)

\* cell x is visited before cell y: earlier column, or same column and lower
\* on the board
VisitedBefore(x, y) ==
    \/ ColumnRank(x[2]) < ColumnRank(y[2])
    \/ x[2] = y[2] /\ x[1] > y[1]

\* the cells of b holding a piece of p
Held(b, p) == {x \in Cells : b[x[1]][x[2]] = p}

\* C19: for every board and opponent value, get_best_victim returns the
\* first cell holding the opponent's piece when columns are visited in the
\* order 3,2,4,1,5,0,6 and rows from bottom (row 5) to top (row 0); it
\* returns none exactly when the board holds no opponent piece: none on an
\* empty board, and the cell itself for a single piece at column 0 row 5.
C19_VictimIsFirstInCenterOutOrder ==
    \A opp \in {-1, 1} :
        LET victim == get_best_victim(board, opp) IN
        /\ (victim = None) <=> (Held(board, opp) = {})
        /\ Held(board, opp) # {} =>
             /\ victim \in Held(board, opp)
             /\ \A y \in Held(board, opp) : y = victim \/ VisitedBefore(victim, y)
        /\ board = EmptyBoard => victim = None
        /\ Held(board, opp) = {<<5, 0>>} => victim = <<5, 0>>

\* the only pieces of -1 lie in the two outer columns, several of them in
\* column 0, and the lowest one of column 0 is chosen
C19_Witness_OuterColumns ==
    /\ \E r \in Rows : board[r][6] = -1
    /\ board[4][0] = -1
    /\ \A x \in Held(board, -1) : x[2] \in {0, 6}
    /\ get_best_victim(board, -1) = <<5, 0>>

\* the board once the AI's piece has landed in column col
AiDropBoard(col) ==
    WithPiece(prev.board, LowestEmpty(prev.board, col), col, 1)

\* the last call was an AI turn of the removal variant whose drop completed
\* a run of three and no run of four
AiDropOpenedEvent ==
    /\ variant = "Variante_1"
    /\ AiAsked
    /\ ~prev.event
    /\ InContract(prev.board, last.ret)
    /\ HasRun(AiDropBoard(last.ret), LowestEmpty(prev.board, last.ret),
              last.ret, 1, 3)
    /\ ~HasRun(AiDropBoard(last.ret), LowestEmpty(prev.board, last.ret),
               last.ret, 1, 4)

\* the engine state between the AI's drop and its resolution of the event
AiEventState == [prev EXCEPT !.board = AiDropBoard(last.ret), !.event = TRUE]

\* C20: removal variant, AI turn: if the AI's drop opens an event, the event
\* is resolved within the same call, so event is false when play_ai_turn
\* returns: when a victim exists it is removed through play, with the
\* resolution rules of a human removal; when the board holds no piece of
\* -1, the event is cleared, the turn passes to -1 and the board is not
\* changed by the fallback.
C20_AiResolvesItsEvent ==
    /\ (variant = "Variante_1" /\ AiAsked /\ ~prev.event) => ~event
    /\ AiDropOpenedEvent =>
         /\ ~event
         /\ IF Held(AiDropBoard(last.ret), -1) # {}
            THEN \E x \in Held(AiDropBoard(last.ret), -1) :
                     /\ ~play(AiEventState, x).raised
                     /\ Eng = play(AiEventState, x).state
                     /\ RemovedFrom(AiDropBoard(last.ret), board, x[1], x[2])
            ELSE /\ board = AiDropBoard(last.ret)
                 /\ current_player = -1
                 /\ victory = prev.victory
                 /\ draw = prev.draw

\* the AI completed a run of three on a board without any piece of -1
C20_Witness_NoVictimFallback ==
    /\ AiDropOpenedEvent
    /\ Held(AiDropBoard(last.ret), -1) = {}
    /\ board = AiDropBoard(last.ret)
    /\ current_player = -1
    /\ ~event

\* no piece of b floats: a piece above the bottom row rests on a piece
Stacked(b) ==
    \A r \in Rows : \A c \in Cols :
        (r < 5 /\ b[r][c] # 0) => b[r + 1][c] # 0

\* C21: gravity: in every state reached by accepted drops and removals, in
\* either variant, no piece floats: every non-empty cell above the bottom
\* row has a non-empty cell directly below it, so each column is a
\* contiguous stack from the bottom row.
C21_NoFloatingPiece ==
    /\ Stacked(board)
    /\ Stacked(prev.board)

\* a piece was removed from under at least two others, which fell
C21_Witness_TwoPiecesFell ==
    /\ variant = "Variante_1"
    /\ last.op = "play"
    /\ ~last.raised
    /\ prev.event
    /\ \E x \in Cells :
           /\ x[1] >= 2
           /\ prev.board[x[1] - 2][x[2]] # 0
           /\ RemovedFrom(prev.board, board, x[1], x[2])
           /\ Count(board, 0) = Count(prev.board, 0) + 1
    /\ Stacked(board)

\* b holds a run of four pieces of one player in some direction
HasFour(b) ==
    \E x \in Cells : b[x[1]][x[2]] # 0 /\ HasRun(b, x[1], x[2], b[x[1]][x[2]], 4)

\* C22: no undetected alignment: in every reachable state of either variant
\* in which victory and draw are both false, the board holds no run of 4
\* pieces of one player in any direction; in particular the re-scan of the
\* modified column after a removal misses no 4-run made by the fall.
C22_NoUndetectedFour ==
    /\ ~Terminal(Eng) => ~HasFour(board)
    /\ (variant = "Variante_1" /\ prev.event /\ last.op # "init"
          /\ ~last.raised /\ HasFour(board)) => Terminal(Eng)

\* a removal let pieces fall, made no run of four, and the game goes on
C22_Witness_FallWithoutFour ==
    /\ variant = "Variante_1"
    /\ last.op = "play"
    /\ ~last.raised
    /\ prev.event
    /\ \E x \in Cells :
           /\ x[1] >= 1
           /\ prev.board[x[1] - 1][x[2]] # 0
           /\ prev.board[x[1]][x[2]] = -prev.current_player
           /\ board[x[1]][x[2]] = prev.board[x[1] - 1][x[2]]
    /\ Count(board, 0) = Count(prev.board, 0) + 1
    /\ ~HasFour(board)
    /\ ~Terminal(Eng)

\* C23: the event sub-phase is always resolvable: in every state of the
\* removal variant reached while the game is in progress, event = true
\* implies that the board holds at least one piece of the opponent of the
\* current player, so some removal is accepted and the game cannot be stuck
\* in the Event phase; and the AI's no-victim fallback is never taken.
C23_EventAlwaysResolvable ==
    /\ (variant = "Variante_1" /\ EventPhase(Eng)) =>
         /\ Held(board, -current_player) # {}
         /\ \E x \in Cells : /\ ~play(Eng, x).raised
                             /\ ~play(Eng, x).state.event
    /\ (AiDropOpenedEvent /\ ~Terminal(prev)) =>
         Held(AiDropBoard(last.ret), -1) # {}

\* an event has just been opened in a game in progress, the opponent has
\* only two pieces on the board and one of them can be taken
C23_Witness_TwoOpponentPieces ==
    /\ variant = "Variante_1"
    /\ EventPhase(Eng)
    /\ Count(board, -current_player) = 2
    /\ last.op = "play"
    /\ ~prev.event
    /\ \E x \in Held(board, -current_player) : ~play(Eng, x).raised

====
